---- MODULE Spec2Model ----
(***************************************************************************)
(* Model of the core of ZET.py: the calendar resolver (active_services),   *)
(* the realtime correlation (correlate) and the stop departure projection  *)
(* (search_by_stop_id / search_by_stop_name, time_str_to_seconds).         *)
(*                                                                         *)
(* Representation of the data the code reads:                              *)
(*   - a CSV cell is a sequence of one-character strings; the empty        *)
(*     sequence is the empty cell, which read_csv(dtype=str) yields as NaN;*)
(*   - an identifier cell that the code only compares for equality is a    *)
(*     string, "" being the empty (NaN) cell;                              *)
(*   - a table that load_static could not read is [present |-> FALSE].     *)
(***************************************************************************)
EXTENDS Integers, Sequences, FiniteSets, TLC

VARIABLES
    pc,              \* position of the running operation
    calendar,        \* calendar.txt table
    calendar_dates,  \* calendar_dates.txt table
    target_date,     \* date argument of active_services
    active,          \* set returned by active_services
    trips,           \* trips.txt table
    feed,            \* decoded FeedMessage: sequence of entities
    route_id,        \* correlate keyword arguments
    vehicle_id,
    stop_id,
    i,               \* correlate: index of the entity the loop is at
    matches,         \* correlate: list being built / returned
    stop_times,      \* stop_times.txt table
    sid,             \* stop id the projection is asked for
    user_time,       \* user_dt time of day, <<hour, minute, second>>
    sts,             \* rows of stop_times at the stop, with their dep_sec
    merged,          \* sts joined with trips, service-filtered, with delta
    upcoming,        \* the projected departures, in printed order
    op,              \* the operation or handler that is running
    mode,            \* data source chosen in the menu: "1", "2" or "3"
    stops,           \* stops.txt table
    stat_trips,      \* list returned by get_static_trips_for_route
    printed,         \* what the handler has printed so far
    raised,          \* exception that left the handler, "" when none
    rt_error         \* why parse_realtime failed in this query, "" when it did not

vars == <<pc, calendar, calendar_dates, target_date, active, trips, feed,
          route_id, vehicle_id, stop_id, i, matches, stop_times, sid,
          user_time, sts, merged, upcoming, op, mode, stops, stat_trips,
          printed, raised, rt_error>>

calVars  == <<calendar, calendar_dates, target_date, active>>
corrVars == <<feed, route_id, vehicle_id, stop_id, i, matches>>
depVars  == <<stop_times, sid, user_time, sts, merged, upcoming>>
qryVars  == <<op, mode, stops, stat_trips, printed, raised, rt_error>>

----------------------------------------------------------------------------
(* Bounds of the model *)

MaxRules == 2
MaxExc == 2
MaxFeed == 2
MaxExtra == 2

----------------------------------------------------------------------------
(* Generic helpers *)

Range(s) == {s[k] : k \in 1..Len(s)}

SeqsUpTo(S, n) == UNION {[1..k -> S] : k \in 0..n}

Absent == [present |-> FALSE, rows |-> <<>>]

Table(rs) == [present |-> TRUE, rows |-> rs]

DigitChars == <<"0", "1", "2", "3", "4", "5", "6", "7", "8", "9">>

IsDigit(c) == \E k \in 1..10 : DigitChars[k] = c

DigitVal(c) == (CHOOSE k \in 1..10 : DigitChars[k] = c) - 1

AllDigits(s) == \A k \in 1..Len(s) : IsDigit(s[k])

RECURSIVE DigitsToInt(_)
DigitsToInt(s) ==
    IF s = <<>> THEN 0
    ELSE 10 * DigitsToInt(SubSeq(s, 1, Len(s) - 1)) + DigitVal(s[Len(s)])

\* n written with exactly w decimal digits (used to lay out input cells)
RECURSIVE Digits(_, _)
Digits(n, w) ==
    IF w = 0 THEN <<>>
    ELSE Append(Digits(n \div 10, w - 1), DigitChars[(n % 10) + 1])

----------------------------------------------------------------------------
(* Dates: datetime.date and pd.to_datetime(format="%Y%m%d", errors="coerce") *)

NaT == [y |-> 0, m |-> 0, d |-> 0]

Date(yy, mm, dd) == [y |-> yy, m |-> mm, d |-> dd]

IsLeap(yy) == (yy % 4 = 0) /\ ((yy % 100 # 0) \/ (yy % 400 = 0))

DaysInMonth(yy, mm) ==
    IF mm = 2 THEN (IF IsLeap(yy) THEN 29 ELSE 28)
    ELSE IF mm \in {4, 6, 9, 11} THEN 30 ELSE 31

RECURSIVE DaysBeforeMonth(_, _)
DaysBeforeMonth(yy, mm) ==
    IF mm = 1 THEN 0
    ELSE DaysBeforeMonth(yy, mm - 1) + DaysInMonth(yy, mm - 1)

DaysBeforeYear(yy) ==
    ((yy - 1) * 365) + ((yy - 1) \div 4) - ((yy - 1) \div 100) + ((yy - 1) \div 400)

\* date.toordinal()
Ordinal(dt) == DaysBeforeYear(dt.y) + DaysBeforeMonth(dt.y, dt.m) + dt.d

\* date.weekday(): Monday = 0 .. Sunday = 6
Weekday(dt) == (Ordinal(dt) + 6) % 7

DateLE(a, b) == Ordinal(a) <= Ordinal(b)

\* pd.to_datetime(cell, format="%Y%m%d", errors="coerce").dt.date for the cells
\* the model lays out: an empty cell, eight characters, or text with a letter.
ParseDate(cell) ==
    IF Len(cell) # 8 \/ ~AllDigits(cell) THEN NaT
    ELSE LET yy == DigitsToInt(SubSeq(cell, 1, 4))
             mm == DigitsToInt(SubSeq(cell, 5, 6))
             dd == DigitsToInt(SubSeq(cell, 7, 8))
         IN  IF mm \in 1..12 /\ dd >= 1 /\ dd <= DaysInMonth(yy, mm)
             THEN Date(yy, mm, dd)
             ELSE NaT

----------------------------------------------------------------------------
(* active_services(calendar, calendar_dates, target_date) *)

weekdays == <<"monday", "tuesday", "wednesday", "thursday", "friday",
              "saturday", "sunday">>

EarliestDate == Date(1900, 1, 1)

LatestDateEarly == Date(2024, 12, 31)

LatestDate == Date(2900, 1, 1)

fillna(dt, dflt) == IF dt = NaT THEN dflt ELSE dt

valid_date_open(row, target) ==
    /\ DateLE(fillna(ParseDate(row.start_date), EarliestDate), target)
    /\ Ordinal(fillna(ParseDate(row.end_date), LatestDate)) > Ordinal(target)

valid_date(row, target) ==
    /\ DateLE(fillna(ParseDate(row.start_date), EarliestDate), target)
    /\ DateLE(target, fillna(ParseDate(row.end_date), LatestDate))

valid_weekday(row, target) == row[weekdays[Weekday(target) + 1]] = "1"

\* calendar[valid_date & valid_weekday]["service_id"].dropna()
BaseServices(cal, target) ==
    IF ~cal.present THEN {}
    ELSE {cal.rows[k].service_id :
             k \in {j \in 1..Len(cal.rows) :
                      /\ valid_date(cal.rows[j], target)
                      /\ valid_weekday(cal.rows[j], target)}} \ {""}

\* exceptions[exceptions["exception_type"] == kind]["service_id"].dropna()
ExceptionServices(cd, target, kind) ==
    {cd.rows[k].service_id :
        k \in {j \in 1..Len(cd.rows) :
                 /\ ParseDate(cd.rows[j].date) = target
                 /\ cd.rows[j].exception_type = kind}} \ {""}

active_services_removal_first(cal, cd, target) ==
    IF ~cd.present THEN BaseServices(cal, target)
    ELSE (BaseServices(cal, target) \ ExceptionServices(cd, target, "2"))
             \cup ExceptionServices(cd, target, "1")

active_services(cal, cd, target) ==
    IF ~cd.present THEN BaseServices(cal, target)
    ELSE (BaseServices(cal, target) \cup ExceptionServices(cd, target, "1"))
             \ ExceptionServices(cd, target, "2")

\* active_services called on the loaded tables
Resolve ==
    /\ pc = "resolve"
    /\ active' = active_services(calendar, calendar_dates, target_date)
    /\ pc' = "done"
    /\ UNCHANGED <<calendar, calendar_dates, target_date, trips>>
    /\ UNCHANGED corrVars
    /\ UNCHANGED depVars
    /\ UNCHANGED qryVars

----------------------------------------------------------------------------
(* Inputs of the calendar resolver *)

Bit(b) == IF b THEN "1" ELSE "0"

\* a calendar.txt row whose weekday columns are "1" on the days in daysOn
Rule(svc, daysOn, startCell, endCell) ==
    [service_id |-> svc,
     monday |-> Bit(0 \in daysOn), tuesday |-> Bit(1 \in daysOn),
     wednesday |-> Bit(2 \in daysOn), thursday |-> Bit(3 \in daysOn),
     friday |-> Bit(4 \in daysOn), saturday |-> Bit(5 \in daysOn),
     sunday |-> Bit(6 \in daysOn),
     start_date |-> startCell, end_date |-> endCell]

Exc(svc, dateCell, kind) ==
    [service_id |-> svc, date |-> dateCell, exception_type |-> kind]

D8(n) == Digits(n, 8)

EmptyCell == <<>>

BadDateCell == <<"2", "0", "2", "4", "-", "0", "6", "-", "1", "0">>

AllWeek == 0..6

\* the handler variables of a direct call of operation o
Direct(o) ==
    /\ op = o
    /\ mode = "2"
    /\ stops = Absent
    /\ stat_trips = <<>>
    /\ printed = <<>>
    /\ raised = ""
    /\ rt_error = ""

NoCorr ==
    /\ feed = <<>>
    /\ route_id = ""
    /\ vehicle_id = <<>>
    /\ stop_id = ""
    /\ i = 1
    /\ matches = <<>>

NoDep ==
    /\ stop_times = Absent
    /\ sid = ""
    /\ user_time = <<0, 0, 0>>
    /\ sts = <<>>
    /\ merged = <<>>
    /\ upcoming = <<>>

\* Exceptions in every row order over a few fixed calendars
ExcCalendars ==
    {Absent,
     Table(<<>>),
     Table(<<Rule("A", {0}, D8(20240101), D8(20241231))>>),
     Table(<<Rule("A", {0}, D8(20240101), D8(20241231)),
             Rule("B", AllWeek, D8(20240101), D8(20241231))>>)}

ExcRows ==
    {Exc(s, dc, k) : s \in {"A", "B"},
                     dc \in {D8(20240610), D8(20240611), BadDateCell},
                     k \in {"1", "2"}}

ExcTables == {Absent} \cup {Table(rs) : rs \in SeqsUpTo(ExcRows, MaxExc)}

InitExc ==
    /\ pc = "resolve"
    /\ calendar \in ExcCalendars
    /\ calendar_dates \in ExcTables
    /\ target_date \in {Date(2024, 6, 10), Date(2024, 6, 11)}
    /\ active = {}
    /\ trips = Absent
    /\ NoCorr
    /\ NoDep
    /\ Direct("active_services")

\* Calendar rules with parsable windows, and a few fixed exception tables
CalRows ==
    {Rule(s, ds, D8(a), D8(b)) :
        s \in {"A", "B"},
        ds \in {{0}, {6}},
        a \in {20240603, 20240610},
        b \in {20240610, 20240616}}

CalTables == {Absent} \cup {Table(rs) : rs \in SeqsUpTo(CalRows, MaxRules)}

CalExceptions ==
    {Absent,
     Table(<<Exc("B", D8(20240612), "1"), Exc("A", BadDateCell, "2"),
             Exc("A", EmptyCell, "2")>>),
     Table(<<Exc("B", D8(20240610), "1"), Exc("A", D8(20240610), "2")>>)}

CalTargets ==
    {Date(2024, 6, 2), Date(2024, 6, 3), Date(2024, 6, 10), Date(2024, 6, 16),
     Date(2024, 6, 17)}

InitCal ==
    /\ pc = "resolve"
    /\ calendar \in CalTables
    /\ calendar_dates \in CalExceptions
    /\ target_date \in CalTargets
    /\ active = {}
    /\ trips = Absent
    /\ NoCorr
    /\ NoDep
    /\ Direct("active_services")

\* Calendar rules whose window bounds may be missing or unparsable
BoundCells(n) == {D8(n), EmptyCell, BadDateCell}

BoundRows ==
    {Rule(s, ds, a, b) :
        s \in {"A", "B"},
        ds \in {AllWeek, {0}},
        a \in BoundCells(20240603),
        b \in BoundCells(20240616)}

BoundTables == {Table(rs) : rs \in SeqsUpTo(BoundRows, MaxRules)}

BoundTargets ==
    {Date(1899, 12, 31), Date(1900, 1, 1), Date(2024, 6, 10), Date(2024, 6, 17),
     Date(2900, 1, 1), Date(2900, 12, 31)}

InitBounds ==
    /\ pc = "resolve"
    /\ calendar \in BoundTables
    /\ calendar_dates = Absent
    /\ target_date \in BoundTargets
    /\ active = {}
    /\ trips = Absent
    /\ NoCorr
    /\ NoDep
    /\ Direct("active_services")

NextCal == Resolve

SpecExc == InitExc /\ [][NextCal]_vars

SpecCal == InitCal /\ [][NextCal]_vars

SpecBounds == InitBounds /\ [][NextCal]_vars

----------------------------------------------------------------------------
(* correlate(feed, trips, route_id, vehicle_id, stop_id) *)

UpperChars == <<"A", "B", "C", "D", "E", "F", "G", "H", "I", "J", "K", "L", "M",
                "N", "O", "P", "Q", "R", "S", "T", "U", "V", "W", "X", "Y", "Z">>

LowerChars == <<"a", "b", "c", "d", "e", "f", "g", "h", "i", "j", "k", "l", "m",
                "n", "o", "p", "q", "r", "s", "t", "u", "v", "w", "x", "y", "z">>

LowerChar(c) ==
    IF \E k \in 1..26 : UpperChars[k] = c
    THEN LowerChars[CHOOSE k \in 1..26 : UpperChars[k] = c]
    ELSE c

lower_unchanged(str) == str

\* str.lower()
lower(str) == [k \in 1..Len(str) |-> LowerChar(str[k])]

\* trips.set_index('trip_id')['route_id'].to_dict(): of rows with the same
\* trip_id the last one stays; {} when the table is absent
trip_to_route(tr) ==
    IF ~tr.present THEN <<>>
    ELSE [t \in {tr.rows[k].trip_id : k \in 1..Len(tr.rows)} |->
            tr.rows[CHOOSE k \in 1..Len(tr.rows) :
                       /\ tr.rows[k].trip_id = t
                       /\ \A j \in (k + 1)..Len(tr.rows) : tr.rows[j].trip_id # t].route_id]

NoTrip == [present |-> FALSE, trip_id |-> ""]

resolve_trip_vehicle_first(entity) ==
    IF entity.vehicle.present /\ entity.vehicle.has_trip
    THEN [present |-> TRUE, trip_id |-> entity.vehicle.trip_id]
    ELSE IF entity.trip_update.present /\ entity.trip_update.has_trip
    THEN [present |-> TRUE, trip_id |-> entity.trip_update.trip_id]
    ELSE NoTrip

\* lines 127-133: the trip descriptor of the entity and its trip_id
resolve_trip(entity) ==
    IF entity.trip_update.present /\ entity.trip_update.has_trip
    THEN [present |-> TRUE, trip_id |-> entity.trip_update.trip_id]
    ELSE IF entity.vehicle.present /\ entity.vehicle.has_trip
    THEN [present |-> TRUE, trip_id |-> entity.vehicle.trip_id]
    ELSE NoTrip

match_route(entity) ==
    LET trip == resolve_trip(entity)
        ttr == trip_to_route(trips)
    IN  /\ trip.present
        /\ trip.trip_id \in DOMAIN ttr
        /\ ttr[trip.trip_id] = route_id

match_vehicle(entity) ==
    LET vid == entity.vehicle.id
    IN  vid # <<>> /\ lower(vid) = lower(vehicle_id)

match_stop_or_current_stop(entity) ==
    \/ \E k \in 1..Len(entity.trip_update.stop_time_update) :
          entity.trip_update.stop_time_update[k] = stop_id
    \/ entity.vehicle.present /\ entity.vehicle.stop_id = stop_id

match_stop(entity) ==
    \E k \in 1..Len(entity.trip_update.stop_time_update) :
        entity.trip_update.stop_time_update[k] = stop_id

\* lines 134-147: the if / elif chain on the supplied criteria
matched(entity) ==
    IF route_id # "" THEN match_route(entity)
    ELSE IF vehicle_id # <<>> /\ entity.vehicle.present THEN match_vehicle(entity)
    ELSE IF stop_id # "" /\ entity.trip_update.present THEN match_stop(entity)
    ELSE FALSE

Match(entity) ==
    [entity_id |-> entity.id, trip_id |-> resolve_trip(entity),
     trip_update |-> entity.trip_update, vehicle |-> entity.vehicle]

\* where correlate returns to: the end of a direct call, or the line of
\* the handler that prints the number of matches (lines 411, 496)
AfterCorrelate == IF op = "correlate" THEN "done" ELSE "realtime_print"

\* one iteration of "for entity in feed.entity"
CorrelateStep ==
    /\ pc = "correlate"
    /\ i <= Len(feed)
    /\ matches' = IF matched(feed[i]) THEN Append(matches, Match(feed[i])) ELSE matches
    /\ i' = i + 1
    /\ UNCHANGED <<pc, feed, route_id, vehicle_id, stop_id, trips>>
    /\ UNCHANGED calVars
    /\ UNCHANGED depVars
    /\ UNCHANGED qryVars

\* "return matches" once the feed is exhausted
CorrelateReturn ==
    /\ pc = "correlate"
    /\ i > Len(feed)
    /\ pc' = AfterCorrelate
    /\ UNCHANGED <<trips>>
    /\ UNCHANGED corrVars
    /\ UNCHANGED calVars
    /\ UNCHANGED depVars
    /\ UNCHANGED qryVars

----------------------------------------------------------------------------
(* Inputs of correlate *)

NoTripUpdate ==
    [present |-> FALSE, has_trip |-> FALSE, trip_id |-> "", stop_time_update |-> <<>>]

TripUpdate(hasTrip, tid, stus) ==
    [present |-> TRUE, has_trip |-> hasTrip, trip_id |-> tid, stop_time_update |-> stus]

NoVehicle ==
    [present |-> FALSE, has_trip |-> FALSE, trip_id |-> "", id |-> <<>>, stop_id |-> ""]

Vehicle(hasTrip, tid, vid, stop) ==
    [present |-> TRUE, has_trip |-> hasTrip, trip_id |-> tid, id |-> vid, stop_id |-> stop]

Entity(eid, tu, veh) == [id |-> eid, trip_update |-> tu, vehicle |-> veh]

VidUpper == <<"Z", "G", "-", "1">>

VidLower == <<"z", "g", "-", "1">>

VidMixed == <<"Z", "g", "-", "1">>

VidOther == <<"Z", "G", "-", "2">>

Entities ==
    {Entity("e1", TripUpdate(TRUE, "T1", <<"S1", "S2">>), NoVehicle),
     Entity("e2", NoTripUpdate, Vehicle(TRUE, "T1", VidUpper, "S1")),
     Entity("e3", TripUpdate(TRUE, "T2", <<"S2">>), Vehicle(TRUE, "T1", VidLower, "S1")),
     Entity("e4", TripUpdate(TRUE, "", <<"S2", "S1">>), Vehicle(TRUE, "T1", VidOther, "S2")),
     Entity("e5", NoTripUpdate, NoVehicle),
     Entity("e6", TripUpdate(FALSE, "", <<>>), Vehicle(TRUE, "T2", <<>>, "S1")),
     Entity("e7", NoTripUpdate, Vehicle(FALSE, "", VidMixed, "S2")),
     Entity("e8", TripUpdate(TRUE, "T9", <<"S1">>), NoVehicle)}

TripRow(tid, rid, svc) == [trip_id |-> tid, route_id |-> rid, service_id |-> svc]

CorrTrips ==
    {Absent,
     Table(<<TripRow("T1", "R1", "A"), TripRow("T2", "R2", "A")>>),
     Table(<<TripRow("T1", "R2", "A"), TripRow("T2", "R1", "B"),
             TripRow("T1", "R1", "B")>>)}

NoCal ==
    /\ calendar = Absent
    /\ calendar_dates = Absent
    /\ target_date = Date(2024, 6, 10)
    /\ active = {}

InitCorr ==
    /\ pc = "correlate"
    /\ feed \in SeqsUpTo(Entities, MaxFeed)
    /\ trips \in CorrTrips
    /\ route_id \in {"", "R1", "R2"}
    /\ vehicle_id \in {<<>>, VidLower}
    /\ stop_id \in {"", "S1"}
    /\ i = 1
    /\ matches = <<>>
    /\ NoCal
    /\ NoDep
    /\ Direct("correlate")

NextCorr == CorrelateStep \/ CorrelateReturn

SpecCorr == InitCorr /\ [][NextCorr]_vars

----------------------------------------------------------------------------
(* time_str_to_seconds(t) *)

\* A value of a pandas column or of a Python variable: an int, a float, the
\* float NaN, or None.
IntVal(n) == [kind |-> "int", v |-> n]

FloatVal(n) == [kind |-> "float", v |-> n]

NaN == [kind |-> "nan", v |-> 0]

None == [kind |-> "none", v |-> 0]

\* str.split(":")
RECURSIVE Split(_)
Split(str) ==
    IF \A k \in 1..Len(str) : str[k] # ":" THEN <<str>>
    ELSE LET n == CHOOSE k \in 1..Len(str) :
                     str[k] = ":" /\ \A j \in 1..(k - 1) : str[j] # ":"
         IN  <<SubSeq(str, 1, n - 1)>> \o Split(SubSeq(str, n + 1, Len(str)))

\* the text without its leading and trailing blanks
RECURSIVE Strip(_)
Strip(str) ==
    IF str # <<>> /\ str[1] = " " THEN Strip(Tail(str))
    ELSE IF str # <<>> /\ str[Len(str)] = " " THEN Strip(SubSeq(str, 1, Len(str) - 1))
    ELSE str

\* int(text): blanks around, an optional sign, then decimal digits; None
\* stands for the ValueError
ParseInt(str) ==
    LET t == Strip(str)
        signed == t # <<>> /\ t[1] \in {"-", "+"}
        body == IF signed THEN Tail(t) ELSE t
    IN  IF body = <<>> \/ ~AllDigits(body) THEN None
        ELSE IF signed /\ t[1] = "-" THEN IntVal(0 - DigitsToInt(body))
        ELSE IntVal(DigitsToInt(body))

time_str_to_seconds_wrapping(t) ==
    LET parts == Split(t)
        h == ParseInt(parts[1])
        m == ParseInt(parts[2])
        sec == IF Len(parts) = 3 THEN ParseInt(parts[3]) ELSE IntVal(0)
    IN  IF Len(parts) \notin {2, 3} THEN None
        ELSE IF None \in {h, m, sec} THEN None
        ELSE IntVal((h.v % 24) * 3600 + m.v * 60 + sec.v)

time_str_to_seconds(t) ==
    LET parts == Split(t)
        h == ParseInt(parts[1])
        m == ParseInt(parts[2])
        sec == IF Len(parts) = 3 THEN ParseInt(parts[3]) ELSE IntVal(0)
    IN  IF Len(parts) \notin {2, 3} THEN None
        ELSE IF None \in {h, m, sec} THEN None
        ELSE IntVal(h.v * 3600 + m.v * 60 + sec.v)

----------------------------------------------------------------------------
(* search_by_stop_id / search_by_stop_name: the static departure projection *)
(* (lines 471-486 and, with the same statements, lines 534-549)             *)

HeadLimit == 50

GraceSeconds == 300

Sentinel == 999999

\* the lambda of line 479: an empty cell is NaN, not a str
dep_sec_of(cell) == IF cell = <<>> THEN None ELSE time_str_to_seconds(cell)

\* Series.apply builds the new column from the returned values: when ints
\* and None are mixed the column becomes float64 and None becomes NaN; a
\* column of None only, or of ints only, keeps its values.
apply_unchanged(col) == col

apply_infer(col) ==
    IF (\E k \in 1..Len(col) : col[k].kind = "int")
          /\ (\E k \in 1..Len(col) : col[k].kind = "none")
    THEN [k \in 1..Len(col) |->
             IF col[k].kind = "int" THEN FloatVal(col[k].v) ELSE NaN]
    ELSE col

\* user_dt.hour*3600 + user_dt.minute*60 + user_dt.second
query_seconds == user_time[1] * 3600 + user_time[2] * 60 + user_time[3]

\* the lambda of line 485
delta_of(x, sec) ==
    IF x.kind = "none" THEN IntVal(Sentinel)
    ELSE IF x.kind = "nan" THEN NaN
    ELSE [kind |-> x.kind, v |-> x.v - sec]

keep_row_strict(row) == row.delta.kind # "nan" /\ row.delta.v > 0 - GraceSeconds

\* merged["delta"] >= -300: a comparison with NaN is False
keep_row(row) == row.delta.kind # "nan" /\ row.delta.v >= 0 - GraceSeconds

\* the order sort_values("delta") leaves the rows in; the default sort is
\* not stable, so rows of equal delta come in table order or reversed
Before(a, b, rev) ==
    \/ a.delta.v < b.delta.v
    \/ a.delta.v = b.delta.v /\ (IF rev THEN a.idx > b.idx ELSE a.idx < b.idx)

\* rows reordered by Before: the row at place p has p - 1 rows before it
sort_values(rows, rev) ==
    LET n == Len(rows)
    IN  CHOOSE sorted \in
            {[p \in 1..n |-> rows[CHOOSE k \in 1..n : before[k] = p - 1]] :
                before \in {[k \in 1..n |->
                               Cardinality({j \in 1..n : Before(rows[j], rows[k], rev)})]}} :
            TRUE

head(rows, n) == SubSeq(rows, 1, IF Len(rows) < n THEN Len(rows) ELSE n)

\* the trips row joined to a stop_times row by merge(on="trip_id",
\* how="left"); empty cells when no trip has the id (trip ids are unique)
TripOf(tid) ==
    IF \E k \in 1..Len(trips.rows) : trips.rows[k].trip_id = tid
    THEN trips.rows[CHOOSE k \in 1..Len(trips.rows) : trips.rows[k].trip_id = tid]
    ELSE [trip_id |-> tid, route_id |-> "", service_id |-> ""]

\* the rows of the table whose stop_id is the stop, with their place in
\* the table
RowsAtStop ==
    SelectSeq([k \in 1..Len(stop_times.rows) |->
                  [idx |-> k,
                   trip_id |-> stop_times.rows[k].trip_id,
                   stop_id |-> stop_times.rows[k].stop_id,
                   departure_time |-> stop_times.rows[k].departure_time]],
              LAMBDA r : r.stop_id = sid)

\* lines 408, 493: "if mode in ("1","3")" after the static part
AfterStatic == IF mode \in {"1", "3"} THEN "fetch" ELSE "done"

\* a line of the handler's output
Line(k, n) == [kind |-> k, n |-> n]

\* lines 471-479: select the rows of the stop and compute their dep_sec
StopParse ==
    /\ pc = "stop_static"
    /\ IF ~stop_times.present \/ ~trips.present
       THEN /\ sts' = <<>>
            /\ printed' = Append(printed, Line("missing", 0))
            /\ pc' = AfterStatic
       ELSE \E rows \in {RowsAtStop} :
            \E parsed \in {[k \in 1..Len(rows) |-> dep_sec_of(rows[k].departure_time)]} :
            \E col \in {apply_infer(parsed)} :
                /\ sts' = [k \in 1..Len(rows) |->
                              [idx |-> rows[k].idx, trip_id |-> rows[k].trip_id,
                               departure_time |-> rows[k].departure_time,
                               dep_sec |-> col[k]]]
                /\ printed' = IF rows = <<>>
                              THEN Append(printed, Line("not_found", 0))
                              ELSE printed
                /\ pc' = IF rows = <<>> THEN AfterStatic ELSE "merge"
    /\ UNCHANGED <<stop_times, sid, user_time, merged, upcoming, trips>>
    /\ UNCHANGED calVars
    /\ UNCHANGED corrVars
    /\ UNCHANGED <<op, mode, stops, stat_trips, raised, rt_error>>

\* sts.merge(trips[["trip_id","route_id","service_id"]], on="trip_id", how="left")
Joined ==
    [k \in 1..Len(sts) |->
        LET t == TripOf(sts[k].trip_id)
        IN  [idx |-> sts[k].idx, trip_id |-> sts[k].trip_id,
             route_id |-> t.route_id, service_id |-> t.service_id,
             dep_sec |-> sts[k].dep_sec]]

\* lines 480-485: join with trips, keep the active services, compute delta
StopMerge ==
    /\ pc = "merge"
    /\ \E act \in {active_services(calendar, calendar_dates, target_date)} :
       \E joined \in {Joined} :
       \E inService \in {IF act # {}
                         THEN SelectSeq(joined, LAMBDA r : r.service_id \in act)
                         ELSE joined} :
          /\ active' = act
          /\ merged' = [k \in 1..Len(inService) |->
                           [idx |-> inService[k].idx, trip_id |-> inService[k].trip_id,
                            route_id |-> inService[k].route_id,
                            service_id |-> inService[k].service_id,
                            dep_sec |-> inService[k].dep_sec,
                            delta |-> delta_of(inService[k].dep_sec, query_seconds)]]
    /\ pc' = "select"
    /\ UNCHANGED <<stop_times, sid, user_time, sts, upcoming, trips>>
    /\ UNCHANGED <<calendar, calendar_dates, target_date>>
    /\ UNCHANGED corrVars
    /\ UNCHANGED qryVars

\* line 486: merged[merged["delta"] >= -300].sort_values("delta").head(50)
StopSelect ==
    /\ pc = "select"
    /\ \E rev \in BOOLEAN :
       \E kept \in {SelectSeq(merged, keep_row)} :
       \E sorted \in {sort_values(kept, rev)} :
          /\ upcoming' = head(sorted, HeadLimit)
          /\ printed' = Append(printed, Line("static", Len(head(sorted, HeadLimit))))
    /\ pc' = AfterStatic
    /\ UNCHANGED <<stop_times, sid, user_time, sts, merged, trips>>
    /\ UNCHANGED calVars
    /\ UNCHANGED corrVars
    /\ UNCHANGED <<op, mode, stops, stat_trips, raised, rt_error>>

----------------------------------------------------------------------------
(* Inputs of the departure projection *)

\* seconds since midnight written HH:MM:SS, the hour not wrapped at 24
TimeCell(secs) ==
    Digits(secs \div 3600, 2) \o <<":">> \o Digits((secs % 3600) \div 60, 2)
        \o <<":">> \o Digits(secs % 60, 2)

StopTime(tid, stop, cell) == [trip_id |-> tid, stop_id |-> stop, departure_time |-> cell]

\* n trips of route R1 calling at stop S every headway seconds from first
\* on, listed last departure first; odd trips run on service A, even on B
Timetable(n, first, headway) ==
    [k \in 1..n |-> StopTime(Digits(n + 1 - k, 3), "S",
                             TimeCell(first + (n - k) * headway))]

TimetableTrips(n) ==
    [k \in 1..n |-> TripRow(Digits(k, 3), "R1", IF k % 2 = 1 THEN "A" ELSE "B")]

BadTimeCell == <<"a", "b", ":", "0", "0", ":", "0", "0">>

ShortTimeCell == <<"8", ":", "0", "5">>

ExtraRows ==
    {StopTime(Digits(901, 3), "S", TimeCell(86700)),
     StopTime(Digits(902, 3), "S", BadTimeCell),
     StopTime(Digits(903, 3), "S", EmptyCell),
     StopTime(Digits(904, 3), "S", ShortTimeCell),
     StopTime(Digits(905, 3), "X", TimeCell(28800)),
     StopTime(Digits(906, 3), "S", TimeCell(90600))}

ExtraTrips ==
    <<TripRow(Digits(901, 3), "R2", "A"), TripRow(Digits(902, 3), "R2", "A"),
      TripRow(Digits(903, 3), "R2", "B"), TripRow(Digits(904, 3), "R2", "A"),
      TripRow(Digits(905, 3), "R2", "A")>>

TimetableSizes == {0, 3, HeadLimit, HeadLimit + 2}

Timetables ==
    {Timetable(n, 28500, 300) : n \in TimetableSizes} \cup {Timetable(3, 84600, 1800)}

DepCalendars == {Absent, Table(<<Rule("A", AllWeek, D8(20240101), D8(20241231))>>)}

InitDep ==
    /\ pc = "stop_static"
    /\ \E extra \in SeqsUpTo(ExtraRows, MaxExtra), tt \in Timetables :
          /\ stop_times = Table(extra \o tt)
          /\ trips \in {Absent, Table(TimetableTrips(Len(tt)) \o ExtraTrips)}
    /\ sid = "S"
    /\ user_time \in {<<0, 0, 0>>, <<8, 5, 0>>, <<8, 5, 1>>}
    /\ calendar \in DepCalendars
    /\ calendar_dates = Absent
    /\ target_date = Date(2024, 6, 10)
    /\ active = {}
    /\ sts = <<>>
    /\ merged = <<>>
    /\ upcoming = <<>>
    /\ NoCorr
    /\ Direct("search_by_stop_id")

NextDep == StopParse \/ StopMerge \/ StopSelect

SpecDep == InitDep /\ [][NextDep]_vars

----------------------------------------------------------------------------
(* Calendar resolver: properties *)

\* a <= b on calendar dates, by year, then month, then day
OnOrBefore(a, b) ==
    \/ a.y < b.y
    \/ a.y = b.y /\ a.m < b.m
    \/ a.y = b.y /\ a.m = b.m /\ a.d <= b.d

ExcOn(kind) ==
    {r.service_id : r \in {x \in Range(calendar_dates.rows) :
                              /\ ParseDate(x.date) = target_date
                              /\ x.exception_type = kind
                              /\ x.service_id # ""}}

\* C1: once active_services has returned, the result is (Base \cup Added)
\* \ Removed for the exceptions dated exactly the target date, whatever the
\* order of the exception rows; a service id both added and removed on the
\* target date is not in the result.
C1_RemovalDominates ==
    pc = "done" =>
        /\ active = (BaseServices(calendar, target_date) \cup ExcOn("1")) \ ExcOn("2")
        /\ (ExcOn("1") \cap ExcOn("2")) \cap active = {}

\* C1 witness: the same service id is added by the first row and removed by
\* the second row on the target date, and another service is active.
C1_Witness ==
    /\ pc = "done"
    /\ Len(calendar_dates.rows) >= 2
    /\ calendar_dates.rows[1].exception_type = "1"
    /\ calendar_dates.rows[2].exception_type = "2"
    /\ calendar_dates.rows[1].service_id = calendar_dates.rows[2].service_id
    /\ ParseDate(calendar_dates.rows[1].date) = target_date
    /\ ParseDate(calendar_dates.rows[2].date) = target_date
    /\ calendar_dates.rows[1].service_id \notin active
    /\ active # {}

NoExceptionOnTarget ==
    \A r \in Range(calendar_dates.rows) : ParseDate(r.date) # target_date

RuleSaysActive(r) ==
    /\ r[weekdays[Weekday(target_date) + 1]] = "1"
    /\ OnOrBefore(ParseDate(r.start_date), target_date)
    /\ OnOrBefore(target_date, ParseDate(r.end_date))

\* C2: with no exception dated the target date, active_services returns
\* exactly the service ids of the rules whose bit for the target weekday is
\* set and whose window [start_date, end_date], both ends included, holds
\* the target date.
C2_BaseRules ==
    (pc = "done" /\ NoExceptionOnTarget) =>
        active = {r.service_id : r \in {x \in Range(calendar.rows) : RuleSaysActive(x)}}

\* C2 witness: the target date is the last day of one rule, which is
\* active, while another rule of the table is not.
C2_Witness ==
    /\ pc = "done"
    /\ NoExceptionOnTarget
    /\ calendar_dates.present
    /\ \E r \in Range(calendar.rows) :
          /\ ParseDate(r.end_date) = target_date
          /\ ParseDate(r.start_date) # target_date
          /\ r.service_id \in active
    /\ \E r \in Range(calendar.rows) : r.service_id \notin active

BoundMissing(r) == ParseDate(r.start_date) = NaT \/ ParseDate(r.end_date) = NaT

\* the weekday bit is set and the bounds the rule does have admit the date
AdmittedByPresentBounds(r) ==
    /\ r[weekdays[Weekday(target_date) + 1]] = "1"
    /\ ParseDate(r.start_date) = NaT \/ OnOrBefore(ParseDate(r.start_date), target_date)
    /\ ParseDate(r.end_date) = NaT \/ OnOrBefore(target_date, ParseDate(r.end_date))

MissingBoundNeverExcludes(first, last) ==
    (/\ pc = "done"
     /\ OnOrBefore(first, target_date)
     /\ OnOrBefore(target_date, last)) =>
        \A r \in Range(calendar.rows) :
            (BoundMissing(r) /\ AdmittedByPresentBounds(r)) => r.service_id \in active

\* C3 as stated: for every target date from 1900-01-01 to 2900-12-31 a
\* missing or unparsable bound never excludes the rule.
C3_SentinelsAsStated == MissingBoundNeverExcludes(Date(1900, 1, 1), Date(2900, 12, 31))

\* C3 amended: the same for every target date from 1900-01-01 to
\* 2900-01-01, the end sentinel the code fills in.
C3_SentinelsOfCode == MissingBoundNeverExcludes(Date(1900, 1, 1), Date(2900, 1, 1))

\* C3 witness: on 2900-01-01 a rule without a usable end date is active,
\* and so is, on 1900-01-01, a rule without a usable start date.
C3_Witness ==
    /\ pc = "done"
    /\ \/ /\ target_date = Date(2900, 1, 1)
          /\ \E r \in Range(calendar.rows) :
                /\ ParseDate(r.end_date) = NaT
                /\ ParseDate(r.start_date) # NaT
                /\ r.service_id \in active
       \/ /\ target_date = Date(1900, 1, 1)
          /\ \E r \in Range(calendar.rows) :
                /\ ParseDate(r.start_date) = NaT
                /\ ParseDate(r.end_date) # NaT
                /\ r.service_id \in active

----------------------------------------------------------------------------
(* correlate: properties *)

\* the matches list is exactly the entities of the feed that satisfy Test,
\* each once and in feed order
MatchesAre(Test(_)) ==
    LET expected == SelectSeq(feed, Test)
    IN  /\ Len(matches) = Len(expected)
        /\ \A k \in 1..Len(expected) :
              /\ matches[k].entity_id = expected[k].id
              /\ matches[k].trip_update = expected[k].trip_update
              /\ matches[k].vehicle = expected[k].vehicle

SameIgnoringCase(a, b) ==
    /\ Len(a) = Len(b)
    /\ \A k \in 1..Len(a) :
          \/ a[k] = b[k]
          \/ \E n \in 1..26 : {a[k], b[k]} = {UpperChars[n], LowerChars[n]}

HasVehicleId(e) ==
    /\ e.vehicle.present
    /\ e.vehicle.id # <<>>
    /\ SameIgnoringCase(e.vehicle.id, vehicle_id)

HasStopUpdate(e) ==
    /\ e.trip_update.present
    /\ stop_id \in Range(e.trip_update.stop_time_update)

\* trip id of the entity: the trip update's trip if it has one, else the
\* vehicle's trip if it has one
TripIdOf(e) ==
    IF e.trip_update.present /\ e.trip_update.has_trip THEN <<e.trip_update.trip_id>>
    ELSE IF e.vehicle.present /\ e.vehicle.has_trip THEN <<e.vehicle.trip_id>>
    ELSE <<>>

\* the route the trips table gives a trip id: that of its last row
RoutesOf(tid) ==
    IF ~trips.present THEN {}
    ELSE {trips.rows[k].route_id :
             k \in {j \in 1..Len(trips.rows) :
                      /\ trips.rows[j].trip_id = tid
                      /\ \A n \in (j + 1)..Len(trips.rows) : trips.rows[n].trip_id # tid}}

OnRoute(e) == TripIdOf(e) # <<>> /\ route_id \in RoutesOf(TripIdOf(e)[1])

FirstSupplied(e) ==
    IF route_id # "" THEN OnRoute(e)
    ELSE IF vehicle_id # <<>> THEN HasVehicleId(e)
    ELSE IF stop_id # "" THEN HasStopUpdate(e)
    ELSE FALSE

SuppliedCount ==
    (IF route_id # "" THEN 1 ELSE 0) + (IF vehicle_id # <<>> THEN 1 ELSE 0)
        + (IF stop_id # "" THEN 1 ELSE 0)

\* C4: when more than one criterion is supplied, only the first supplied in
\* the order route, vehicle, stop decides every entity; an entity failing it
\* (also one without a vehicle sub-message under a vehicle filter) is not
\* matched through a lower criterion.
C4_FirstSuppliedOnly ==
    (pc = "done" /\ SuppliedCount > 1) => MatchesAre(FirstSupplied)

\* C5: with a route filter the result is exactly the entities whose
\* resolved trip id maps to route_id in the trips table, once each, in feed
\* order.
C5_ByRoute ==
    (pc = "done" /\ route_id # "") => MatchesAre(OnRoute)

\* C5 witness: a returned entity whose trip update and vehicle name
\* different trips, the vehicle's trip being on another route, and a feed
\* entity that was left out.
C5_Witness ==
    /\ pc = "done"
    /\ route_id # ""
    /\ Len(matches) < Len(feed)
    /\ \E k \in 1..Len(matches) :
          /\ matches[k].trip_update.present
          /\ matches[k].trip_update.has_trip
          /\ matches[k].vehicle.present
          /\ matches[k].vehicle.has_trip
          /\ route_id \notin RoutesOf(matches[k].vehicle.trip_id)

\* C6: with only a vehicle filter an entity matches iff it has a vehicle
\* sub-message whose vehicle id equals the filter ignoring case.
C6_ByVehicle ==
    (pc = "done" /\ route_id = "" /\ vehicle_id # <<>> /\ stop_id = "") =>
        MatchesAre(HasVehicleId)

\* C6 witness: a match whose vehicle id differs from the filter in case
\* only, and a feed entity without vehicle sub-message that is not returned.
C6_Witness ==
    /\ pc = "done"
    /\ route_id = "" /\ vehicle_id # <<>> /\ stop_id = ""
    /\ \E k \in 1..Len(matches) : matches[k].vehicle.id # vehicle_id
    /\ \E k \in 1..Len(feed) : ~feed[k].vehicle.present
    /\ \A k \in 1..Len(matches) : matches[k].vehicle.present

\* C7: with only a stop filter an entity matches iff it has a trip update
\* one of whose stop_time_updates has the stop id; the stop a vehicle
\* sub-message reports does not count.
C7_ByStop ==
    (pc = "done" /\ route_id = "" /\ vehicle_id = <<>> /\ stop_id # "") =>
        MatchesAre(HasStopUpdate)

\* C7 witness: the feed holds an entity without trip update whose vehicle
\* reports the stop, it is not returned, and another entity is.
C7_Witness ==
    /\ pc = "done"
    /\ route_id = "" /\ vehicle_id = <<>> /\ stop_id # ""
    /\ Len(matches) = 1
    /\ matches[1].trip_update.present
    /\ \E k \in 1..Len(feed) :
          /\ ~feed[k].trip_update.present
          /\ feed[k].vehicle.present
          /\ feed[k].vehicle.stop_id = stop_id

----------------------------------------------------------------------------
(* Departure projection: properties *)

\* the projection of lines 475-486 has run to its end
Projected == pc = "done" /\ stop_times.present /\ trips.present

HasSeconds(row) == row.dep_sec.kind \in {"int", "float"}

Cell(row) == stop_times.rows[row.idx].departure_time

Places(rows, Test(_)) == {k \in 1..Len(rows) : Test(rows[k])}

IdxOf(rows, places) == {rows[k].idx : k \in places}

\* rows of the stop, in an active service, whose departure D has D - Q >= -300
CandidatePlaces ==
    Places(merged, LAMBDA r : HasSeconds(r) /\ r.dep_sec.v - query_seconds >= -300)

\* C8: a row with departure seconds D is a candidate iff D - Q >= -300; the
\* result holds only candidates among its rows with a departure time, is in
\* ascending order of delta = D - Q, has at most 50 rows, holds every
\* candidate when there are at most 50 and the 50 of smallest delta otherwise.
C8_Projection ==
    Projected =>
        \E cand \in {IdxOf(merged, CandidatePlaces)} :
        \E timed \in {Places(upcoming, HasSeconds)} :
        \E shown \in {IdxOf(upcoming, timed)} :
            /\ Len(upcoming) <= 50
            /\ \A k \in timed : upcoming[k].delta.v = upcoming[k].dep_sec.v - query_seconds
            /\ \A k \in 1..(Len(upcoming) - 1) : upcoming[k].delta.v <= upcoming[k + 1].delta.v
            /\ shown \subseteq cand
            /\ Cardinality(shown) = Cardinality(timed)
            /\ Cardinality(cand) <= 50 => shown = cand
            /\ Cardinality(cand) > 50 =>
                  /\ Cardinality(shown) = 50
                  /\ \A m \in CandidatePlaces :
                        merged[m].idx \notin shown =>
                            \A k \in timed :
                                upcoming[k].delta.v <= merged[m].dep_sec.v - query_seconds

\* C8 witness: more than 50 candidates, a row that left more than 300
\* seconds ago and is dropped, and a row exactly 300 seconds ago heading
\* the result.
C8_Witness ==
    /\ Projected
    /\ Cardinality(CandidatePlaces) > 50
    /\ \E k \in 1..Len(merged) :
          HasSeconds(merged[k]) /\ merged[k].dep_sec.v - query_seconds < -300
    /\ Len(upcoming) = 50
    /\ upcoming[1].delta.v = -300

Unparsable(row) == dep_sec_of(Cell(row)) = None

\* C9 as stated: a row whose departure time cannot be parsed gets delta
\* 999999 and is not among the upcoming departures.
C9_SentinelExcluded ==
    Projected =>
        \A k \in 1..Len(merged) :
            Unparsable(merged[k]) =>
                /\ merged[k].delta = IntVal(999999)
                /\ \A j \in 1..Len(upcoming) : upcoming[j].idx # merged[k].idx

\* C9 amended: an unparsable departure time never stops the projection of
\* the other rows and never comes before a parsable one in the result. If
\* some row of the stop has a parsable time, the unparsable row's delta is
\* NaN and the row is dropped by the delta filter; if no row of the stop
\* has, every row's delta is 999999, passes the filter and is listed, up to
\* the cut at 50 rows.
C9_Degrades ==
    Projected =>
        \E someParsed \in {\E k \in 1..Len(sts) : dep_sec_of(sts[k].departure_time) # None} :
        \E shownAll \in {IdxOf(upcoming, 1..Len(upcoming))} :
            /\ \A k \in 1..Len(merged) :
                  Unparsable(merged[k]) =>
                      IF someParsed
                      THEN merged[k].delta = NaN /\ merged[k].idx \notin shownAll
                      ELSE /\ merged[k].delta = IntVal(999999)
                           /\ Len(merged) <= 50 => merged[k].idx \in shownAll
            /\ \A j \in 1..Len(upcoming) :
                  Unparsable(upcoming[j]) =>
                      \A n \in (j + 1)..Len(upcoming) : Unparsable(upcoming[n])
            /\ Cardinality(CandidatePlaces) <= 50 =>
                  IdxOf(merged, CandidatePlaces) \subseteq shownAll

\* C9 witness: a stop with a parsable and an unparsable row in service: the
\* unparsable one has delta NaN and is left out, the parsable one is listed.
C9_Witness ==
    /\ Projected
    /\ \E k \in 1..Len(merged) :
          /\ Unparsable(merged[k])
          /\ Cell(merged[k]) # <<>>
          /\ merged[k].delta = NaN
          /\ \A j \in 1..Len(upcoming) : upcoming[j].idx # merged[k].idx
    /\ upcoming # <<>>

\* C9 second case reached: a stop none of whose rows parses lists them with
\* delta 999999.
C9_AllUnparsableListed ==
    /\ Projected
    /\ upcoming # <<>>
    /\ \A j \in 1..Len(upcoming) :
          Unparsable(upcoming[j]) /\ upcoming[j].delta = IntVal(999999)

Cell251000 == <<"2", "5", ":", "1", "0", ":", "0", "0">>

Cell080500 == <<"0", "8", ":", "0", "5", ":", "0", "0">>

Cell240500 == <<"2", "4", ":", "0", "5", ":", "0", "0">>

\* C10: "25:10:00" is 90600 seconds and "08:05:00" is 29100; at query time
\* 00:00:00 a departure "24:05:00" has delta 86700, passes the delta filter
\* and comes after every listed departure whose hour is below 24 (it is
\* missing from the result only when 50 rows of no larger delta fill it).
C10_ServiceDay ==
    /\ time_str_to_seconds(Cell251000) = IntVal(90600)
    /\ time_str_to_seconds(Cell080500) = IntVal(29100)
    /\ (Projected /\ query_seconds = 0) =>
          \A k \in 1..Len(merged) :
              Cell(merged[k]) = Cell240500 =>
                  /\ merged[k].delta.kind # "nan"
                  /\ merged[k].delta.v = 86700
                  /\ merged[k].delta.v >= -300
                  /\ \A p \in 1..Len(upcoming) :
                        upcoming[p].idx = merged[k].idx =>
                            \A q \in 1..Len(upcoming) :
                                (HasSeconds(upcoming[q]) /\ upcoming[q].dep_sec.v < 24 * 3600)
                                    => q < p
                  /\ (\A p \in 1..Len(upcoming) : upcoming[p].idx # merged[k].idx) =>
                        /\ Len(upcoming) = 50
                        /\ \A q \in 1..Len(upcoming) : upcoming[q].delta.v <= 86700

\* C10 witness: at query time 00:00:00 the departure "24:05:00" is listed
\* after a departure of hour below 24 and before one of a later hour.
C10_Witness ==
    /\ Projected
    /\ query_seconds = 0
    /\ \E p \in 2..(Len(upcoming) - 1) :
          /\ Cell(upcoming[p]) = Cell240500
          /\ upcoming[p].delta.v = 86700
          /\ upcoming[p - 1].dep_sec.v < 24 * 3600
          /\ upcoming[p + 1].dep_sec.v > 86700

----------------------------------------------------------------------------
(* get_static_trips_for_route(trips, stop_times, stops, route_id, active) *)

\* row.get(col): the cell, or None when the table has no such column
Get(row, col) == IF col \in DOMAIN row THEN row[col] ELSE "None"

\* a < b for two str cells: Python compares strings character by
\* character, and a proper prefix is the smaller one
StrLess(a, b) ==
    \E k \in 1..(Len(b)) :
        /\ \A j \in 1..(k - 1) : j <= Len(a) /\ a[j] = b[j]
        /\ \/ k = Len(a) + 1
           \/ k <= Len(a) /\ DigitVal(a[k]) < DigitVal(b[k])

\* a < b for two cells read as whole numbers
NumLess(a, b) == DigitsToInt(a) < DigitsToInt(b)

\* the order sort_values("stop_sequence") leaves the rows in: the column
\* was read with dtype=str, so the cells are compared as strings; NaN
\* cells go last, and rows of equal key come in table order or reversed
SeqBefore(a, b, rev) ==
    \/ a.stop_sequence # <<>> /\ b.stop_sequence = <<>>
    \/ a.stop_sequence # <<>> /\ StrLess(a.stop_sequence, b.stop_sequence)
    \/ a.stop_sequence = b.stop_sequence
         /\ (IF rev THEN a.idx > b.idx ELSE a.idx < b.idx)

\* the same with the cells compared as numbers
SeqBeforeNumeric(a, b, rev) ==
    \/ a.stop_sequence # <<>> /\ b.stop_sequence = <<>>
    \/ a.stop_sequence # <<>> /\ b.stop_sequence # <<>>
         /\ NumLess(a.stop_sequence, b.stop_sequence)
    \/ a.stop_sequence = b.stop_sequence
         /\ (IF rev THEN a.idx > b.idx ELSE a.idx < b.idx)

\* stop_times[stop_times["trip_id"] == trip_id], each row with its place
\* in the table
RowsOfTrip(st, tid) ==
    LET places == SelectSeq([k \in 1..Len(st.rows) |-> k],
                            LAMBDA k : st.rows[k].trip_id = tid)
    IN  [p \in 1..Len(places) |->
            [idx |-> places[p],
             trip_id |-> st.rows[places[p]].trip_id,
             stop_id |-> st.rows[places[p]].stop_id,
             stop_sequence |-> st.rows[places[p]].stop_sequence,
             arrival_time |-> st.rows[places[p]].arrival_time,
             departure_time |-> st.rows[places[p]].departure_time]]

sort_by_stop_sequence(rows, rev) ==
    LET n == Len(rows)
    IN  CHOOSE sorted \in
            {[p \in 1..n |-> rows[CHOOSE k \in 1..n : before[k] = p - 1]] :
                before \in {[k \in 1..n |->
                               Cardinality({j \in 1..n :
                                              SeqBefore(rows[j], rows[k], rev)})]}} :
            TRUE

\* stops.set_index("stop_id")["stop_name"].to_dict(): the last row of a
\* stop_id wins; {} when there is no stops table
stop_names(st) ==
    IF ~st.present THEN <<>>
    ELSE [s \in {st.rows[k].stop_id : k \in 1..Len(st.rows)} |->
            st.rows[CHOOSE k \in 1..Len(st.rows) :
                       /\ st.rows[k].stop_id = s
                       /\ \A j \in (k + 1)..Len(st.rows) : st.rows[j].stop_id # s].stop_name]

\* stop_names.get(stop_id, stop_id)
stop_name_of(names, s) == IF s \in DOMAIN names THEN names[s] ELSE s

stops_list(rows, names) ==
    [p \in 1..Len(rows) |->
        [stop_id |-> rows[p].stop_id,
         stop_name |-> stop_name_of(names, rows[p].stop_id),
         arrival |-> rows[p].arrival_time,
         departure |-> rows[p].departure_time,
         seq |-> rows[p].stop_sequence]]

\* lines 100-102 with the calendar filter applied whatever the set holds
candidates_always_filtered(tr, rid, act) ==
    SelectSeq(tr.rows, LAMBDA t : t.route_id = rid /\ t.service_id \in act)

\* lines 100-102: the trips of the route, restricted to the active
\* services when the set is not empty
candidates(tr, rid, act) ==
    IF act # {}
    THEN SelectSeq(tr.rows, LAMBDA t : t.route_id = rid /\ t.service_id \in act)
    ELSE SelectSeq(tr.rows, LAMBDA t : t.route_id = rid)

\* lines 97-99 without the guard: indexing None raises TypeError
tables_missing_unguarded(tr, st) == FALSE

\* lines 97-99: the early return
tables_missing(tr, st) == ~tr.present \/ ~st.present

get_static_trips_for_route(tr, st, sp, rid, act, rev) ==
    IF tables_missing(tr, st) THEN <<>>
    ELSE LET cand == candidates(tr, rid, act)
             names == stop_names(sp)
         IN  [c \in 1..Len(cand) |->
                [trip_id |-> cand[c].trip_id,
                 headsign |-> Get(cand[c], "trip_headsign"),
                 stops |-> stops_list(
                     sort_by_stop_sequence(RowsOfTrip(st, cand[c].trip_id), rev),
                     names)]]

\* what the call raises: indexing a table that is None is a TypeError
get_static_trips_raises(tr, st) ==
    IF tables_missing(tr, st) THEN ""
    ELSE IF ~tr.present \/ ~st.present THEN "TypeError" ELSE ""

\* a direct call of get_static_trips_for_route
GetStaticTrips ==
    /\ pc = "static_trips"
    /\ \E rev \in BOOLEAN :
          stat_trips' = get_static_trips_for_route(trips, stop_times, stops,
                                                   route_id, active, rev)
    /\ raised' = get_static_trips_raises(trips, stop_times)
    /\ pc' = "done"
    /\ UNCHANGED <<calVars, trips, corrVars, depVars, op, mode, stops, printed,
                   rt_error>>

\* Inputs of the call: stop_times rows of two trips with one- and
\* two-digit sequence numbers, unique per trip as GTFS requires
MaxStops == 3

MaxTrips == 2

StopRow(tid, stop, seq) ==
    [trip_id |-> tid, stop_id |-> stop, stop_sequence |-> seq,
     arrival_time |-> TimeCell(28800), departure_time |-> TimeCell(28860)]

StopRows ==
    {StopRow("T1", "S1", <<"1">>), StopRow("T1", "S2", <<"2">>),
     StopRow("T1", "S3", <<"1", "0">>), StopRow("T2", "S2", <<"2">>),
     StopRow("T2", "S1", <<"1", "0">>)}

UniqueSequences(rs) ==
    \A j, k \in 1..Len(rs) :
        (j # k /\ rs[j].trip_id = rs[k].trip_id)
            => rs[j].stop_sequence # rs[k].stop_sequence

StopTables ==
    {Table(rs) : rs \in {r \in SeqsUpTo(StopRows, MaxStops) : UniqueSequences(r)}}

StopName(sid0, name) == [stop_id |-> sid0, stop_name |-> name]

StopsTables ==
    {Absent, Table(<<StopName("S1", "Glavni kolodvor"), StopName("S2", "Trg")>>)}

RouteTripRows ==
    {TripRow("T1", "R1", "A"), TripRow("T2", "R1", "B"),
     TripRow("T3", "R1", ""), TripRow("T4", "R2", "A")}

UniqueTrips(rs) ==
    \A j, k \in 1..Len(rs) : j # k => rs[j].trip_id # rs[k].trip_id

TripTables ==
    {Absent} \cup
    {Table(rs) : rs \in {r \in SeqsUpTo(RouteTripRows, MaxTrips) : UniqueTrips(r)}}

TwoTrips == Table(<<TripRow("T1", "R1", "A"), TripRow("T2", "R1", "B")>>)

TwoTripsStops ==
    Table(<<StopRow("T1", "S1", <<"1">>), StopRow("T2", "S2", <<"2">>),
            StopRow("T1", "S2", <<"2">>)>>)

\* the stop_times table varies
InitStops ==
    /\ pc = "static_trips"
    /\ stop_times \in StopTables
    /\ trips = TwoTrips
    /\ stops \in StopsTables
    /\ route_id = "R1"
    /\ active = {}

\* the trips table and the active set vary
InitTrips ==
    /\ pc = "static_trips"
    /\ stop_times \in {Absent, TwoTripsStops}
    /\ trips \in TripTables
    /\ stops = Absent
    /\ route_id \in {"R1", "R2"}
    /\ active \in SUBSET {"A", "B"}

InitStatic ==
    /\ InitStops \/ InitTrips
    /\ op = "get_static_trips_for_route"
    /\ mode = "2"
    /\ stat_trips = <<>>
    /\ printed = <<>>
    /\ raised = ""
    /\ rt_error = ""
    /\ calendar = Absent
    /\ calendar_dates = Absent
    /\ target_date = Date(2024, 6, 10)
    /\ feed = <<>>
    /\ vehicle_id = <<>>
    /\ stop_id = ""
    /\ i = 1
    /\ matches = <<>>
    /\ sid = "S"
    /\ user_time = <<0, 0, 0>>
    /\ sts = <<>>
    /\ merged = <<>>
    /\ upcoming = <<>>

NextStatic == GetStaticTrips

SpecStatic == InitStatic /\ [][NextStatic]_vars

Returned == pc = "done" /\ op = "get_static_trips_for_route"

\* the stops list of a returned trip holds the rows of that trip in
\* stop_times, each once, and no row of another trip
ExactRowsOfTrip(t) ==
    LET rows == RowsOfTrip(stop_times, t.trip_id)
    IN  /\ Len(t.stops) = Len(rows)
        /\ \A k \in 1..Len(rows) :
              \E p \in 1..Len(t.stops) :
                  /\ t.stops[p].stop_id = rows[k].stop_id
                  /\ t.stops[p].seq = rows[k].stop_sequence

\* C11: every returned trip lists exactly its own stop_times rows, in
\* ascending order of the stop sequence number (2 before 10)
C11_AscendingSequence ==
    Returned =>
        \A c \in 1..Len(stat_trips) :
            /\ ExactRowsOfTrip(stat_trips[c])
            /\ \A p, q \in 1..Len(stat_trips[c].stops) :
                  p < q => NumLess(stat_trips[c].stops[p].seq,
                                   stat_trips[c].stops[q].seq)

\* what the code does instead: the rows are those of the trip, in
\* ascending order of the sequence cells compared as strings ("10" < "2")
C11_StringOrder ==
    Returned =>
        \A c \in 1..Len(stat_trips) :
            /\ ExactRowsOfTrip(stat_trips[c])
            /\ \A p, q \in 1..Len(stat_trips[c].stops) :
                  p < q => StrLess(stat_trips[c].stops[p].seq,
                                   stat_trips[c].stops[q].seq)

\* a returned trip whose stop 10 is listed before its stop 2
C11_TenBeforeTwo ==
    /\ Returned
    /\ \E c \in 1..Len(stat_trips) :
          \E p \in 1..(Len(stat_trips[c].stops) - 1) :
              /\ stat_trips[c].stops[p].seq = <<"1", "0">>
              /\ stat_trips[c].stops[p + 1].seq = <<"2">>

\* the trips of the table that the claim says are returned
OnRouteRows == {k \in 1..Len(trips.rows) : trips.rows[k].route_id = route_id}

InActiveService(k) == trips.rows[k].service_id \in active

\* C12: the trips returned are those of route_id; with a non-empty active
\* set exactly those of them whose service_id is in the set, with an empty
\* active set every trip of the route
C12_CalendarFilter ==
    (Returned /\ trips.present /\ stop_times.present) =>
        LET wanted == IF active = {} THEN OnRouteRows
                      ELSE {k \in OnRouteRows : InActiveService(k)}
        IN  /\ Len(stat_trips) = Cardinality(wanted)
            /\ {stat_trips[c].trip_id : c \in 1..Len(stat_trips)}
                   = {trips.rows[k].trip_id : k \in wanted}

\* an empty active set, and the two trips of the route both returned
C12_Witness ==
    /\ Returned
    /\ active = {}
    /\ Cardinality(OnRouteRows) = 2
    /\ Len(stat_trips) = 2

\* a non-empty active set that keeps one trip of the route and drops one
C12_FilteredWitness ==
    /\ Returned
    /\ active # {}
    /\ Cardinality(OnRouteRows) = 2
    /\ Len(stat_trips) = 1

----------------------------------------------------------------------------
(* parse_realtime() and the handlers search_by_route, search_by_stop_id *)

\* what can go wrong in parse_realtime: requests.get fails or times out,
\* raise_for_status meets a non-success status, ParseFromString cannot
\* decode the body
FetchFailures == {"network", "timeout", "status", "decode"}

Fetched(f) == [ok |-> TRUE, cause |-> "", feed |-> f]

FetchFailed(c) == [ok |-> FALSE, cause |-> c, feed |-> <<>>]

\* lines 49-57: the feed, or RuntimeError for any exception inside
parse_realtime(outcome) ==
    IF outcome.ok THEN [raised |-> "", feed |-> outcome.feed]
    ELSE [raised |-> "RuntimeError", feed |-> <<>>]

\* the handler without its try / except: the RuntimeError leaves it
fetch_failure_uncaught(cause) ==
    [printed |-> printed, raised |-> "RuntimeError"]

\* lines 427-428, 503-504: "except Exception as e" prints one line and the
\* handler goes on to its end
fetch_failure(cause) ==
    [printed |-> Append(printed, [kind |-> "error", n |-> 0, cause |-> cause]),
     raised |-> ""]

\* lines 398, 471: "if mode in ("2","3")" at the head of the handler
Entry(static) == IF mode \in {"2", "3"} THEN static ELSE AfterStatic

\* lines 399-404 of search_by_route; user_dt is set whenever the mode is
\* "2" or "3" (main_menu, lines 331-348)
RouteStatic ==
    /\ pc = "route_static"
    /\ \E act \in {active_services(calendar, calendar_dates, target_date)} :
       \E rev \in BOOLEAN :
       \E out \in {get_static_trips_for_route(trips, stop_times, stops,
                                              route_id, act, rev)} :
          /\ active' = act
          /\ stat_trips' = out
          /\ printed' = Append(printed, Line("static", Len(out)))
    /\ raised' = get_static_trips_raises(trips, stop_times)
    /\ pc' = IF raised' # "" THEN "done" ELSE AfterStatic
    /\ UNCHANGED <<calendar, calendar_dates, target_date, trips>>
    /\ UNCHANGED corrVars
    /\ UNCHANGED depVars
    /\ UNCHANGED <<op, mode, stops, rt_error>>

\* the feeds the endpoint may answer with
FetchedEntities ==
    {Entity("e1", TripUpdate(TRUE, "T1", <<"S1", "S2">>), NoVehicle),
     Entity("e2", NoTripUpdate, Vehicle(TRUE, "T1", VidUpper, "S1")),
     Entity("e5", NoTripUpdate, NoVehicle),
     Entity("e9", TripUpdate(TRUE, Digits(1, 3), <<"S">>), NoVehicle)}

FetchOutcomes ==
    {Fetched(f) : f \in SeqsUpTo(FetchedEntities, MaxFeed)}
        \cup {FetchFailed(c) : c \in FetchFailures}

\* lines 410-411, 495-496: parse_realtime answered; correlate is called
\* with the handler's criterion, route_id=route_id or stop_id=sid
Fetch ==
    /\ pc = "fetch"
    /\ \E o \in FetchOutcomes :
          /\ parse_realtime(o).raised = ""
          /\ feed' = parse_realtime(o).feed
    /\ route_id' = IF op = "search_by_route" THEN route_id ELSE ""
    /\ vehicle_id' = <<>>
    /\ stop_id' = IF op = "search_by_route" THEN "" ELSE sid
    /\ i' = 1
    /\ matches' = <<>>
    /\ pc' = "correlate"
    /\ UNCHANGED calVars
    /\ UNCHANGED depVars
    /\ UNCHANGED <<trips, qryVars>>

\* lines 409-428, 494-504: parse_realtime raised inside the try
FetchFail ==
    /\ pc = "fetch"
    /\ \E o \in FetchOutcomes :
          /\ parse_realtime(o).raised # ""
          /\ rt_error' = o.cause
          /\ printed' = fetch_failure(o.cause).printed
          /\ raised' = fetch_failure(o.cause).raised
    /\ pc' = "done"
    /\ UNCHANGED calVars
    /\ UNCHANGED corrVars
    /\ UNCHANGED depVars
    /\ UNCHANGED <<trips, op, mode, stops, stat_trips>>

\* lines 412, 497: the number of realtime entities matched
RealtimePrint ==
    /\ pc = "realtime_print"
    /\ printed' = Append(printed, Line("realtime", Len(matches)))
    /\ pc' = "done"
    /\ UNCHANGED calVars
    /\ UNCHANGED corrVars
    /\ UNCHANGED depVars
    /\ UNCHANGED <<trips, op, mode, stops, stat_trips, raised, rt_error>>

Modes == {"1", "2", "3"}

InitRoute ==
    /\ op = "search_by_route"
    /\ mode \in Modes
    /\ pc = Entry("route_static")
    /\ trips \in {Absent, TwoTrips}
    /\ stop_times \in {Absent, TwoTripsStops}
    /\ stops \in StopsTables
    /\ calendar \in DepCalendars
    /\ route_id \in {"R1", "R2"}
    /\ sid = ""
    /\ user_time = <<0, 0, 0>>

InitStop ==
    /\ op = "search_by_stop_id"
    /\ mode \in Modes
    /\ pc = Entry("stop_static")
    /\ trips \in {Absent, Table(TimetableTrips(3))}
    /\ stop_times \in {Absent, Table(Timetable(3, 28500, 300))}
    /\ stops = Absent
    /\ calendar \in DepCalendars
    /\ route_id = ""
    /\ sid \in {"S", "X"}
    /\ user_time = <<8, 5, 0>>

InitQuery ==
    /\ InitRoute \/ InitStop
    /\ calendar_dates = Absent
    /\ target_date = Date(2024, 6, 10)
    /\ active = {}
    /\ feed = <<>>
    /\ vehicle_id = <<>>
    /\ stop_id = ""
    /\ i = 1
    /\ matches = <<>>
    /\ sts = <<>>
    /\ merged = <<>>
    /\ upcoming = <<>>
    /\ stat_trips = <<>>
    /\ printed = <<>>
    /\ raised = ""
    /\ rt_error = ""

NextQuery ==
    \/ RouteStatic
    \/ StopParse
    \/ StopMerge
    \/ StopSelect
    \/ Fetch
    \/ FetchFail
    \/ CorrelateStep
    \/ CorrelateReturn
    \/ RealtimePrint

SpecQuery == InitQuery /\ [][NextQuery]_vars

\* C13: in a query of both paths, when the realtime fetch fails the
\* handler prints one error for it, leaves the static results it computed
\* as they are, and returns without an exception
C13_FetchFailureRecoverable ==
    [][(pc = "fetch" /\ mode = "3" /\ rt_error' # "") =>
          /\ pc' = "done"
          /\ raised' = ""
          /\ stat_trips' = stat_trips
          /\ upcoming' = upcoming
          /\ Len(printed') = Len(printed) + 1
          /\ SubSeq(printed', 1, Len(printed)) = printed
          /\ printed'[Len(printed')].kind = "error"]_vars

\* a query of both paths ended after a failed fetch, its static trips
\* listed
C13_Witness ==
    /\ pc = "done"
    /\ op = "search_by_route"
    /\ mode = "3"
    /\ rt_error = "timeout"
    /\ stat_trips # <<>>
    /\ Len(printed) = 2

\* the same for the stop handler, its departures listed
C13_StopWitness ==
    /\ pc = "done"
    /\ op = "search_by_stop_id"
    /\ mode = "3"
    /\ rt_error # ""
    /\ upcoming # <<>>

----------------------------------------------------------------------------
(* The core operations on absent tables *)

\* direct calls of active_services, get_static_trips_for_route and
\* correlate, each with its tables present or absent
InitCore == InitExc \/ InitStatic \/ InitCorr

NextCore ==
    \/ Resolve
    \/ GetStaticTrips
    \/ CorrelateStep
    \/ CorrelateReturn

SpecCore == InitCore /\ [][NextCore]_vars

AnyTableAbsent ==
    \/ ~calendar.present
    \/ ~calendar_dates.present
    \/ ~trips.present
    \/ ~stop_times.present
    \/ ~stops.present

\* C14: with a static table absent the core operations end without an
\* exception; active_services gives the empty set when both calendar
\* tables are absent, get_static_trips_for_route the empty list when trips
\* or stop_times is absent, correlate by route the empty list when trips
\* is absent
C14_AbsentTablesEmpty ==
    (pc = "done" /\ AnyTableAbsent) =>
        /\ raised = ""
        /\ (op = "active_services" /\ ~calendar.present /\ ~calendar_dates.present)
               => active = {}
        /\ (op = "get_static_trips_for_route"
                /\ (~trips.present \/ ~stop_times.present))
               => stat_trips = <<>>
        /\ (op = "correlate" /\ route_id # "" /\ ~trips.present)
               => matches = <<>>

\* get_static_trips_for_route has returned, called without a trips table
\* and with a stop_times table
C14_Witness ==
    /\ Returned
    /\ ~trips.present
    /\ stop_times.present
    /\ stat_trips = <<>>
    /\ raised = ""

\* active_services has returned, called without either calendar table
C14_ResolveWitness ==
    /\ pc = "done"
    /\ op = "active_services"
    /\ ~calendar.present
    /\ ~calendar_dates.present
    /\ active = {}

\* correlate by route has returned, called without a trips table on a feed
\* of two entities
C14_CorrelateWitness ==
    /\ pc = "done"
    /\ op = "correlate"
    /\ route_id # ""
    /\ ~trips.present
    /\ Len(feed) = 2
    /\ matches = <<>>

====
